---- MODULE Spec2Model ----
(***************************************************************************)
(* Model of the /search handler of API/myapp/myapp/main.py: request        *)
(* validation, scoped acquisition of a pooled connection, construction of  *)
(* the parametrized query and of its argument list, execution against a    *)
(* fixture store, and shaping of the response.                             *)
(*                                                                         *)
(* The query text is modelled as the sequence of its tokens.  A token is   *)
(* a piece of SQL text in which "$" stands for the placeholder whose       *)
(* number the f-string interpolates (n = 0: the piece has no placeholder). *)
(* Python values are tagged: None, str (a sequence of characters), list    *)
(* of str, int.                                                            *)
(***************************************************************************)
EXTENDS Integers, Sequences, FiniteSets, TLC

\* ---------------------------------------------------------------- bounds
NumClients == 2
NumConns == 1
MaxLimit == 2
MaxOffset == 2

Clients == 1..NumClients
Conns == 1..NumConns

\* ------------------------------------------------------- Python values
None == [ty |-> "none", s |-> <<>>, n |-> 0]
PyStr(x) == [ty |-> "str", s |-> x, n |-> 0]
PyArr(x) == [ty |-> "arr", s |-> x, n |-> 0]
PyInt(i) == [ty |-> "int", s |-> <<>>, n |-> i]

\* Python truthiness: None, "", [] and 0 are falsy.
Truthy(v) ==
    CASE v.ty = "none" -> FALSE
      [] v.ty = "int" -> v.n # 0
      [] OTHER -> v.s # <<>>

IsNotNone(v) == v.ty # "none"

\* f"%{text}%"
LikePattern(v) == PyStr(<<"%">> \o v.s \o <<"%">>)

\* ------------------------------------------------------------ requests
Req(ht, hp, dt, dp, ty, fi, fs, rl, ro, el, eo, bn, bc, bp, bs) ==
    [head_text |-> ht, head_pos |-> hp, dpdt_text |-> dt, dpdt_pos |-> dp,
     dep_type |-> ty, freq_inf |-> fi, freq_sup |-> fs,
     results_limit |-> rl, results_offset |-> ro,
     examples_limit |-> el, examples_offset |-> eo,
     book_names |-> bn, book_categories |-> bc,
     book_periods |-> bp, book_styles |-> bs]

\* Every presence pattern of the optional filters (None, empty, supplied).
BuildRequests ==
    { Req(ht, hp, dt, dp, ty, PyInt(1), fs, PyInt(MaxLimit + 1), PyInt(0), PyInt(1), PyInt(1),
          bn, bc, bp, bs) :
        ht \in {None, PyStr(<<>>), PyStr(<<"r">>)},
        hp \in {None, PyArr(<<>>), PyArr(<<"VERB">>)},
        dt \in {None, PyStr(<<>>), PyStr(<<"f">>)},
        dp \in {None, PyArr(<<"ADV", "ADJ">>)},
        ty \in {None, PyArr(<<"amod">>)},
        fs \in {None, PyInt(2)},
        bn \in {None, PyArr(<<"b1">>)},
        bc \in {None, PyArr(<<"poetry">>)},
        bp \in {None, PyArr(<<"han">>)},
        bs \in {None, PyArr(<<"verse">>)} }

\* The two pagination windows <<results_limit, results_offset, examples_limit,
\* examples_offset>>: every results window, and every examples window.
Windows ==
    { <<rl, ro, 1, 1>> : rl \in 1..MaxLimit, ro \in 0..MaxOffset }
    \cup { <<MaxLimit, 0, el, eo>> : el \in 1..MaxLimit, eo \in 0..MaxOffset }

\* Every value of the frequency bounds and of the pagination windows.
ExecRequests ==
    { Req(t[1], None, t[2], None, None, PyInt(fi), fs, PyInt(w[1]), PyInt(w[2]),
          PyInt(w[3]), PyInt(w[4]), bn, None, None, None) :
        t \in {<<PyStr(<<"r">>), None>>, <<PyStr(<<"_", "u">>), None>>,
               <<None, PyStr(<<"f">>)>>},
        fi \in {1, 2},
        fs \in {None, PyInt(1), PyInt(3)},
        w \in Windows,
        bn \in {None, PyArr(<<"b1", "b3">>)} }

\* The requests concurrent clients send: one without text filter, and two
\* with the same filters present and different values.
ConcRequests ==
    { Req(None, None, PyStr(<<>>), None, None, PyInt(1), None, PyInt(1), PyInt(0), PyInt(1),
          PyInt(0), None, None, None, None),
      Req(PyStr(<<"r">>), None, None, None, None, PyInt(1), None, PyInt(MaxLimit), PyInt(1),
          PyInt(1), PyInt(0), PyArr(<<"b1">>), None, None, None),
      Req(PyStr(<<"u">>), None, None, None, None, PyInt(2), None, PyInt(1), PyInt(0),
          PyInt(MaxLimit), PyInt(1), PyArr(<<"b2", "b3">>), None, None, None) }

\* ----------------------------------------------------- the fixture store
Ex(b, k) == [book |-> b, sent |-> k]

\* mv_token_collocations
Store ==
    << [head_text |-> <<"r", "u", "n">>, head_pos |-> "VERB",
        dependent_text |-> <<"f", "a">>, dependent_pos |-> "ADV",
        dependency_type |-> "advmod", frequency |-> 3,
        examples |-> <<Ex("b1", 1), Ex("b2", 2), Ex("b1", 3)>>],
       [head_text |-> <<"r", "u">>, head_pos |-> "NOUN",
        dependent_text |-> <<"f">>, dependent_pos |-> "ADJ",
        dependency_type |-> "amod", frequency |-> 2,
        examples |-> <<Ex("b2", 4), Ex("b3", 5)>>],
       [head_text |-> <<"s", "u", "n">>, head_pos |-> "NOUN",
        dependent_text |-> <<"h">>, dependent_pos |-> "ADJ",
        dependency_type |-> "amod", frequency |-> 1,
        examples |-> <<Ex("b3", 6), Ex("b1", 7)>>],
       [head_text |-> <<"r">>, head_pos |-> "VERB",
        dependent_text |-> <<"o", "f">>, dependent_pos |-> "ADV",
        dependency_type |-> "advmod", frequency |-> 1,
        examples |-> <<>>] >>

\* books
Books ==
    << [name |-> "b1", category |-> "poetry", period |-> "tang", style |-> "verse"],
       [name |-> "b2", category |-> "history", period |-> "han", style |-> "prose"],
       [name |-> "b3", category |-> "poetry", period |-> "han", style |-> "verse"] >>

\* ------------------------------------------------------ the query text
\* A piece of SQL text without placeholder, and one whose "$" is followed by n.
K(s) == [s |-> s, n |-> 0]
P(s, n) == [s |-> s, n |-> n]

\* sep.join(clauses)
RECURSIVE Join(_, _)
Join(clauses, sep) ==
    IF Len(clauses) <= 1 THEN clauses
    ELSE <<Head(clauses)>> \o <<sep>> \o Join(Tail(clauses), sep)

\* The state of lines 89-91: where_clauses, params, param_counter.
EmptyBuilder == [where |-> <<>>, params |-> <<>>, counter |-> 1]

\* AddClause testing "v is not None" instead of the truth value of v.
AddClauseIfNotNone(b, v, sql, x) ==
    IF IsNotNone(v)
    THEN [where |-> Append(b.where, P(sql, b.counter)),
          params |-> Append(b.params, x),
          counter |-> b.counter + 1]
    ELSE b

\* "if v: where_clauses.append(f'... ${param_counter}'); params.append(x);
\*  param_counter += 1"
AddClause(b, v, sql, x) ==
    IF Truthy(v)
    THEN [where |-> Append(b.where, P(sql, b.counter)),
          params |-> Append(b.params, x),
          counter |-> b.counter + 1]
    ELSE b

\* Lines 94-117: the predicates over the collocation columns.
WhereStage(req) ==
    LET b1 == AddClause(EmptyBuilder, req.head_text, "head_text LIKE $",
                        LikePattern(req.head_text))
        b2 == AddClause(b1, req.dpdt_text, "dependent_text LIKE $",
                        LikePattern(req.dpdt_text))
        b3 == AddClause(b2, req.head_pos, "head_pos = ANY($::text[])", req.head_pos)
        b4 == AddClause(b3, req.dpdt_pos, "dependent_pos = ANY($::text[])", req.dpdt_pos)
        b5 == AddClause(b4, req.dep_type, "dependency_type = ANY($::text[])", req.dep_type)
    IN b5

\* Positions without "param_counter += 1" after freq_sup_pos (line 137).
PositionsNoIncrement(req, counter) ==
    LET freq_inf_pos == counter
        c1 == counter + 1
        freq_sup_pos == IF IsNotNone(req.freq_sup) THEN PyInt(c1) ELSE None
        c2 == c1
        book_names_pos == IF Truthy(req.book_names) THEN PyInt(c2) ELSE None
        c3 == IF Truthy(req.book_names) THEN c2 + 1 ELSE c2
        categories_pos == IF Truthy(req.book_categories) THEN PyInt(c3) ELSE None
        c4 == IF Truthy(req.book_categories) THEN c3 + 1 ELSE c3
        periods_pos == IF Truthy(req.book_periods) THEN PyInt(c4) ELSE None
        c5 == IF Truthy(req.book_periods) THEN c4 + 1 ELSE c4
        styles_pos == IF Truthy(req.book_styles) THEN PyInt(c5) ELSE None
        c6 == IF Truthy(req.book_styles) THEN c5 + 1 ELSE c5
    IN [freq_inf_pos |-> PyInt(freq_inf_pos), freq_sup_pos |-> freq_sup_pos,
        book_names_pos |-> book_names_pos, categories_pos |-> categories_pos,
        periods_pos |-> periods_pos, styles_pos |-> styles_pos,
        examples_limit_pos |-> PyInt(c6), examples_offset_pos |-> PyInt(c6 + 1),
        results_limit_pos |-> PyInt(c6 + 2), results_offset_pos |-> PyInt(c6 + 3),
        param_counter |-> c6 + 4]

\* Positions with the value of results_offset taken for its position (line 171).
PositionsOffsetValue(req, counter) ==
    LET freq_inf_pos == counter
        c1 == counter + 1
        freq_sup_pos == IF IsNotNone(req.freq_sup) THEN PyInt(c1) ELSE None
        c2 == IF IsNotNone(req.freq_sup) THEN c1 + 1 ELSE c1
        book_names_pos == IF Truthy(req.book_names) THEN PyInt(c2) ELSE None
        c3 == IF Truthy(req.book_names) THEN c2 + 1 ELSE c2
        categories_pos == IF Truthy(req.book_categories) THEN PyInt(c3) ELSE None
        c4 == IF Truthy(req.book_categories) THEN c3 + 1 ELSE c3
        periods_pos == IF Truthy(req.book_periods) THEN PyInt(c4) ELSE None
        c5 == IF Truthy(req.book_periods) THEN c4 + 1 ELSE c4
        styles_pos == IF Truthy(req.book_styles) THEN PyInt(c5) ELSE None
        c6 == IF Truthy(req.book_styles) THEN c5 + 1 ELSE c5
    IN [freq_inf_pos |-> PyInt(freq_inf_pos), freq_sup_pos |-> freq_sup_pos,
        book_names_pos |-> book_names_pos, categories_pos |-> categories_pos,
        periods_pos |-> periods_pos, styles_pos |-> styles_pos,
        examples_limit_pos |-> PyInt(c6), examples_offset_pos |-> PyInt(c6 + 1),
        results_limit_pos |-> PyInt(c6 + 2), results_offset_pos |-> req.results_offset,
        param_counter |-> c6 + 4]

\* Lines 130-172: the placeholder positions of the remaining parameters.
\* A position that the code leaves None is None here.
Positions(req, counter) ==
    LET freq_inf_pos == counter
        c1 == counter + 1
        freq_sup_pos == IF IsNotNone(req.freq_sup) THEN PyInt(c1) ELSE None
        c2 == IF IsNotNone(req.freq_sup) THEN c1 + 1 ELSE c1
        book_names_pos == IF Truthy(req.book_names) THEN PyInt(c2) ELSE None
        c3 == IF Truthy(req.book_names) THEN c2 + 1 ELSE c2
        categories_pos == IF Truthy(req.book_categories) THEN PyInt(c3) ELSE None
        c4 == IF Truthy(req.book_categories) THEN c3 + 1 ELSE c3
        periods_pos == IF Truthy(req.book_periods) THEN PyInt(c4) ELSE None
        c5 == IF Truthy(req.book_periods) THEN c4 + 1 ELSE c4
        styles_pos == IF Truthy(req.book_styles) THEN PyInt(c5) ELSE None
        c6 == IF Truthy(req.book_styles) THEN c5 + 1 ELSE c5
    IN [freq_inf_pos |-> PyInt(freq_inf_pos), freq_sup_pos |-> freq_sup_pos,
        book_names_pos |-> book_names_pos, categories_pos |-> categories_pos,
        periods_pos |-> periods_pos, styles_pos |-> styles_pos,
        examples_limit_pos |-> PyInt(c6), examples_offset_pos |-> PyInt(c6 + 1),
        results_limit_pos |-> PyInt(c6 + 2), results_offset_pos |-> PyInt(c6 + 3),
        param_counter |-> c6 + 4]

\* Lines 175-183: book_filter_conditions.
BookFilterConditions(req, pos) ==
    (IF Truthy(req.book_names)
       THEN <<P("name = ANY($::text[])", pos.book_names_pos.n)>> ELSE <<>>)
    \o (IF Truthy(req.book_categories)
       THEN <<P("category = ANY($::text[])", pos.categories_pos.n)>> ELSE <<>>)
    \o (IF Truthy(req.book_periods)
       THEN <<P("period = ANY($::text[])", pos.periods_pos.n)>> ELSE <<>>)
    \o (IF Truthy(req.book_styles)
       THEN <<P("style = ANY($::text[])", pos.styles_pos.n)>> ELSE <<>>)

\* Lines 187-194: books_filter_inner_sql.
BooksFilterInnerSql(conditions) ==
    IF conditions # <<>>
    THEN <<K("INNER JOIN ("), K("SELECT name FROM books WHERE")>>
         \o Join(conditions, K("AND"))
         \o <<K(") AS boo ON boo.name = e->>'book'")>>
    ELSE <<>>

\* Lines 197-203: example_fetch_sql.
ExampleFetchSql(filter, pos) ==
    <<K("(SELECT jsonb_agg(e) FROM ("),
      K("SELECT e FROM jsonb_array_elements(examples) AS e")>>
    \o filter
    \o <<K("-- Use the reusable filter"),
         P("LIMIT $", pos.examples_limit_pos.n),
         P("OFFSET $", pos.examples_offset_pos.n),
         K(") AS limited_examples)")>>

\* Lines 206-211: total_matching_examples_count_sql.
TotalMatchingExamplesCountSql(filter) ==
    <<K("(SELECT COUNT(*)"), K("FROM jsonb_array_elements(examples) AS e")>>
    \o filter
    \o <<K("-- Use the reusable filter"), K(")")>>

\* Line 128: final_where_sql.
FinalWhereSql(where) == Join(where, K("AND"))

\* Lines 214-231: query_template.
QueryTemplate(req, where, pos) ==
    LET filter == BooksFilterInnerSql(BookFilterConditions(req, pos))
    IN <<K("SELECT"),
         K("dependent_text, dependent_pos, head_text, head_pos, dependency_type,")>>
       \o ExampleFetchSql(filter, pos)
       \o <<K("AS examples,"), K("mv_token_collocations.frequency,"),
            K("-- KEEP original frequency column")>>
       \o TotalMatchingExamplesCountSql(filter)
       \o <<K("AS example_count,"), K("-- NEW column for total examples"),
            K("COUNT(*) OVER() AS total_collocations_count"),
            K("-- Renamed for clarity"),
            K("FROM mv_token_collocations WHERE")>>
       \o FinalWhereSql(where)
       \o <<K("AND"), P("mv_token_collocations.frequency >= $", pos.freq_inf_pos.n)>>
       \o (IF IsNotNone(req.freq_sup)
             THEN <<K("AND"),
                    P("mv_token_collocations.frequency <= $", pos.freq_sup_pos.n)>>
             ELSE <<>>)
       \o <<K("ORDER BY"), K("example_count DESC"),
            P("LIMIT $", pos.results_limit_pos.n),
            P("OFFSET $", pos.results_offset_pos.n)>>

\* AllParams with the results window appended before the examples window.
AllParamsResultsFirst(req, params) ==
    params
    \o <<req.freq_inf>>
    \o (IF IsNotNone(req.freq_sup) THEN <<req.freq_sup>> ELSE <<>>)
    \o (IF Truthy(req.book_names) THEN <<req.book_names>> ELSE <<>>)
    \o (IF Truthy(req.book_categories) THEN <<req.book_categories>> ELSE <<>>)
    \o (IF Truthy(req.book_periods) THEN <<req.book_periods>> ELSE <<>>)
    \o (IF Truthy(req.book_styles) THEN <<req.book_styles>> ELSE <<>>)
    \o <<req.results_limit, req.results_offset,
         req.examples_limit, req.examples_offset>>

\* Lines 234-252: the remaining parameters, appended to those of the predicates.
AllParams(req, params) ==
    params
    \o <<req.freq_inf>>
    \o (IF IsNotNone(req.freq_sup) THEN <<req.freq_sup>> ELSE <<>>)
    \o (IF Truthy(req.book_names) THEN <<req.book_names>> ELSE <<>>)
    \o (IF Truthy(req.book_categories) THEN <<req.book_categories>> ELSE <<>>)
    \o (IF Truthy(req.book_periods) THEN <<req.book_periods>> ELSE <<>>)
    \o (IF Truthy(req.book_styles) THEN <<req.book_styles>> ELSE <<>>)
    \o <<req.examples_limit, req.examples_offset,
         req.results_limit, req.results_offset>>

\* Lines 89-252: the query text and its argument list.
BuildQuery(req) ==
    LET b == WhereStage(req)
        pos == Positions(req, b.counter)
    IN [query |-> QueryTemplate(req, b.where, pos),
        params |-> AllParams(req, b.params)]

\* ------------------------------------------- the store's evaluation
\* What PostgreSQL computes for the emitted text and the bound arguments,
\* over the fixture store.
Min(a, b) == IF a <= b THEN a ELSE b

\* Index of the first token whose text is s (0: none).
IndexOf(q, s) ==
    LET at == { i \in 1..Len(q) : q[i].s = s }
    IN IF at = {} THEN 0 ELSE CHOOSE i \in at : \A j \in at : i <= j

\* The tokens strictly between the first token a and the first token b after it
\* (to the end of the text when b is "").
Section(q, a, b) ==
    LET i == IndexOf(q, a)
        rest == IF i = 0 THEN <<>> ELSE SubSeq(q, i + 1, Len(q))
        j == IF b = "" THEN Len(rest) + 1 ELSE IndexOf(rest, b)
    IN IF j = 0 THEN rest ELSE SubSeq(rest, 1, j - 1)

IsComment(tok) == tok.s \in {"-- Use the reusable filter", "-- KEEP original frequency column",
                             "-- NEW column for total examples", "-- Renamed for clarity"}

NoComments(q) == SelectSeq(q, LAMBDA tok : ~IsComment(tok))

\* text LIKE pattern: "%" matches any run of characters, "_" any one character.
RECURSIVE LikeMatch(_, _)
LikeMatch(text, pattern) ==
    IF pattern = <<>> THEN text = <<>>
    ELSE IF Head(pattern) = "%"
         THEN LikeMatch(text, Tail(pattern))
              \/ (text # <<>> /\ LikeMatch(Tail(text), pattern))
         ELSE /\ text # <<>>
              /\ (Head(pattern) = "_" \/ Head(pattern) = Head(text))
              /\ LikeMatch(Tail(text), Tail(pattern))

\* x = ANY(arr)
AnyOf(x, arr) == \E i \in 1..Len(arr) : arr[i] = x

\* The pieces of text that end in a placeholder, by the type PostgreSQL infers
\* for it.
TextPieces == {"head_text LIKE $", "dependent_text LIKE $"}
ArrayPieces ==
    {"head_pos = ANY($::text[])", "dependent_pos = ANY($::text[])",
     "dependency_type = ANY($::text[])", "name = ANY($::text[])",
     "category = ANY($::text[])", "period = ANY($::text[])", "style = ANY($::text[])"}
IntPieces ==
    {"mv_token_collocations.frequency >= $", "mv_token_collocations.frequency <= $",
     "LIMIT $", "OFFSET $"}

HasPlaceholder(s) == s \in TextPieces \cup ArrayPieces \cup IntPieces

ArgType(s) ==
    CASE s \in TextPieces -> "str"
      [] s \in ArrayPieces -> "arr"
      [] OTHER -> "int"

\* pred (AND pred)*
WellFormedConjunction(sec) ==
    /\ Len(sec) % 2 = 1
    /\ \A i \in 1..Len(sec) :
          IF i % 2 = 1 THEN sec[i].n # 0 ELSE sec[i] = K("AND")

OuterWhere(q) == NoComments(Section(q, "FROM mv_token_collocations WHERE", "ORDER BY"))
ExampleFetchSection(q) ==
    NoComments(Section(q, "SELECT e FROM jsonb_array_elements(examples) AS e",
                       ") AS limited_examples)"))
ExampleCountSection(q) ==
    NoComments(Section(q, "FROM jsonb_array_elements(examples) AS e", ")"))
OuterWindow(q) == NoComments(Section(q, "example_count DESC", ""))

\* The conditions of the joined books subquery of a section (with their ANDs).
JoinConditions(sec) ==
    Section(sec, "SELECT name FROM books WHERE", ") AS boo ON boo.name = e->>'book'")

HasJoin(sec) == IndexOf(sec, "INNER JOIN (") # 0

\* The argument bound to the placeholder of the token s of a section.
ArgOf(sec, s, args) == args[sec[IndexOf(sec, s)].n].n

\* The server accepts the statement: every placeholder is bound to an argument
\* of its type, every argument is referenced, the conjunctions are well formed.
QueryValid(q, args) ==
    /\ \A i \in 1..Len(q) :
          IF HasPlaceholder(q[i].s)
          THEN /\ q[i].n \in 1..Len(args)
               /\ args[q[i].n].ty = ArgType(q[i].s)
          ELSE q[i].n = 0
    /\ \A k \in 1..Len(args) : \E i \in 1..Len(q) : q[i].n = k
    /\ WellFormedConjunction(OuterWhere(q))
    /\ HasJoin(ExampleFetchSection(q)) =>
          WellFormedConjunction(JoinConditions(ExampleFetchSection(q)))
    /\ HasJoin(ExampleCountSection(q)) =>
          WellFormedConjunction(JoinConditions(ExampleCountSection(q)))

\* One predicate of the outer WHERE on one collocation.
EvalPredicate(tok, row, args) ==
    LET a == args[tok.n]
    IN CASE tok.s = "head_text LIKE $" -> LikeMatch(row.head_text, a.s)
         [] tok.s = "dependent_text LIKE $" -> LikeMatch(row.dependent_text, a.s)
         [] tok.s = "head_pos = ANY($::text[])" -> AnyOf(row.head_pos, a.s)
         [] tok.s = "dependent_pos = ANY($::text[])" -> AnyOf(row.dependent_pos, a.s)
         [] tok.s = "dependency_type = ANY($::text[])" -> AnyOf(row.dependency_type, a.s)
         [] tok.s = "mv_token_collocations.frequency >= $" -> row.frequency >= a.n
         [] tok.s = "mv_token_collocations.frequency <= $" -> row.frequency <= a.n
         [] OTHER -> FALSE

\* One condition of the books subquery on one book.
EvalBookCondition(tok, book, args) ==
    LET a == args[tok.n]
    IN CASE tok.s = "name = ANY($::text[])" -> AnyOf(book.name, a.s)
         [] tok.s = "category = ANY($::text[])" -> AnyOf(book.category, a.s)
         [] tok.s = "period = ANY($::text[])" -> AnyOf(book.period, a.s)
         [] tok.s = "style = ANY($::text[])" -> AnyOf(book.style, a.s)
         [] OTHER -> FALSE

\* The collocations the outer WHERE keeps (indices into Store).
Matching(q, args) ==
    LET w == OuterWhere(q)
    IN { i \in 1..Len(Store) :
           \A k \in 1..Len(w) : w[k] # K("AND") => EvalPredicate(w[k], Store[i], args) }

\* Number of rows of the books subquery that join the example e.
JoinCount(e, conds, args) ==
    Cardinality({ b \in 1..Len(Books) :
        /\ Books[b].name = e.book
        /\ \A k \in 1..Len(conds) :
              conds[k] # K("AND") => EvalBookCondition(conds[k], Books[b], args) })

\* jsonb_array_elements(examples) AS e [INNER JOIN (...) AS boo ON ...]:
\* the elements in array order, each once per joined book.
RECURSIVE JoinedExamples(_, _, _)
JoinedExamples(exs, sec, args) ==
    IF ~HasJoin(sec) THEN exs
    ELSE IF exs = <<>> THEN <<>>
    ELSE [k \in 1..JoinCount(Head(exs), JoinConditions(sec), args) |-> Head(exs)]
         \o JoinedExamples(Tail(exs), sec, args)

\* rows LIMIT limit OFFSET offset
Window(rows, limit, offset) == SubSeq(rows, offset + 1, Min(Len(rows), offset + limit))

\* jsonb_agg: NULL over no rows.
JsonbAgg(rows) == [null |-> rows = <<>>, items |-> rows]

\* ExamplesColumn without the books join in the examples subquery.
ExamplesColumnUnfiltered(exs, q, args) ==
    LET sec == ExampleFetchSection(q)
    IN JsonbAgg(Window(exs, ArgOf(sec, "LIMIT $", args), ArgOf(sec, "OFFSET $", args)))

\* The "examples" column of a collocation.
ExamplesColumn(exs, q, args) ==
    LET sec == ExampleFetchSection(q)
    IN JsonbAgg(Window(JoinedExamples(exs, sec, args),
                       ArgOf(sec, "LIMIT $", args), ArgOf(sec, "OFFSET $", args)))

\* ExampleCountColumn counting the elements of the paginated slice.
ExampleCountColumnOfSlice(exs, q, args) ==
    Len(ExamplesColumn(exs, q, args).items)

\* The "example_count" column of a collocation.
ExampleCountColumn(exs, q, args) ==
    Len(JoinedExamples(exs, ExampleCountSection(q), args))

\* One row of the result set, before the outer window.
ResultRow(i, q, args, total) ==
    [dependent_text |-> Store[i].dependent_text,
     dependent_pos |-> Store[i].dependent_pos,
     head_text |-> Store[i].head_text,
     head_pos |-> Store[i].head_pos,
     dependency_type |-> Store[i].dependency_type,
     examples |-> ExamplesColumn(Store[i].examples, q, args),
     frequency |-> Store[i].frequency,
     example_count |-> ExampleCountColumn(Store[i].examples, q, args),
     total_collocations_count |-> total]

\* ORDER BY example_count DESC: every order of the matching collocations that
\* is sorted on the key (ties in any order).
SortedOrders(q, args) ==
    LET M == Matching(q, args)
        cnt == [i \in M |-> ExampleCountColumn(Store[i].examples, q, args)]
    IN { f \in [1..Cardinality(M) -> M] :
           /\ \A a, b \in 1..Cardinality(M) : a # b => f[a] # f[b]
           /\ \A a, b \in 1..Cardinality(M) : a < b => cnt[f[a]] >= cnt[f[b]] }

\* The row sets connection.fetch may return (line 258).
FetchResults(q, args) ==
    LET M == Matching(q, args)
        row == [i \in M |-> ResultRow(i, q, args, Cardinality(M))]
        w == OuterWindow(q)
    IN { Window([k \in 1..Len(f) |-> row[f[k]]],
                ArgOf(w, "LIMIT $", args), ArgOf(w, "OFFSET $", args)) :
         f \in SortedOrders(q, args) }

\* --------------------------------------------------- shaping (259-270)
\* row.pop(key, None)
Pop(row, key) == [f \in DOMAIN row \ {key} |-> row[f]]

\* PopAll removing the field from the first row only.
PopAllFirstOnly(rows) ==
    [i \in 1..Len(rows) |->
        IF i = 1 THEN Pop(rows[i], "total_collocations_count") ELSE rows[i]]

PopAll(rows) == [i \in 1..Len(rows) |-> Pop(rows[i], "total_collocations_count")]

TotalOf(rows) == IF rows # <<>> THEN rows[1].total_collocations_count ELSE 0

ShapeResponse(rows) ==
    [status |-> 200, detail |-> "",
     total_collocations_count |-> TotalOf(rows), results |-> PopAll(rows)]

\* ------------------------------------------------------ the handler
VARIABLES
    input,      \* the request each client sends (clients outside its domain send none)
    pc,         \* where each request's handler stands
    free,       \* the connections in the pool
    conn,       \* the connection each handler holds (0: none)
    query,      \* query_template
    params,     \* params
    rows,       \* collocations as fetched (line 259)
    response,   \* the HTTP response (status 0: none yet)
    acquires,   \* how many times each handler acquired a connection
    fetches     \* how many queries each handler sent to the store

vars == <<input, pc, free, conn, query, params, rows, response, acquires, fetches>>

NoResponse == [status |-> 0, detail |-> "", total_collocations_count |-> 0, results |-> <<>>]

ErrorResponse(status, detail) ==
    [status |-> status, detail |-> detail, total_collocations_count |-> 0, results |-> <<>>]

\* One client with any request, or every client with one of a few requests.
Inputs ==
    { [c \in {1} |-> r] : r \in BuildRequests \cup ExecRequests }
    \cup [Clients -> ConcRequests]

Init ==
    /\ input \in Inputs
    /\ pc = [c \in Clients |-> "idle"]
    /\ free = Conns
    /\ conn = [c \in Clients |-> 0]
    /\ query = [c \in Clients |-> <<>>]
    /\ params = [c \in Clients |-> <<>>]
    /\ rows = [c \in Clients |-> <<>>]
    /\ response = [c \in Clients |-> NoResponse]
    /\ acquires = [c \in Clients |-> 0]
    /\ fetches = [c \in Clients |-> 0]

\* Invalid testing "is None" instead of the truth value.
InvalidOnlyNone(req) == req.head_text = None /\ req.dpdt_text = None

\* Line 81: "if not head_text and not dpdt_text".
Invalid(req) == ~Truthy(req.head_text) /\ ~Truthy(req.dpdt_text)

\* Lines 80-85: parameter validation, before the try block.
Validate(c) ==
    /\ pc[c] = "idle"
    /\ c \in DOMAIN input
    /\ IF Invalid(input[c])
       THEN /\ pc' = [pc EXCEPT ![c] = "done"]
            /\ response' = [response EXCEPT ![c] = ErrorResponse(400,
                  "At least one of 'head_text' or 'dpdt_text' must be provided.")]
       ELSE /\ pc' = [pc EXCEPT ![c] = "acquire"]
            /\ UNCHANGED response
    /\ UNCHANGED <<input, free, conn, query, params, rows, acquires, fetches>>

\* Lines 88-255: "async with app.state.db_pool.acquire() as connection" waits
\* for a free connection and takes it; the handler then builds the query and
\* its arguments and sends them (no suspension point in between).
AcquireAndBuild(c) ==
    /\ pc[c] = "acquire"
    /\ \E k \in free :
          /\ free' = free \ {k}
          /\ conn' = [conn EXCEPT ![c] = k]
    /\ acquires' = [acquires EXCEPT ![c] = @ + 1]
    /\ query' = [query EXCEPT ![c] = BuildQuery(input[c]).query]
    /\ params' = [params EXCEPT ![c] = BuildQuery(input[c]).params]
    /\ pc' = [pc EXCEPT ![c] = "fetch"]
    /\ UNCHANGED <<input, rows, response, fetches>>

\* Lines 258-270: connection.fetch returns the rows and the handler shapes
\* the response payload.
FetchAndShape(c) ==
    /\ pc[c] = "fetch"
    /\ QueryValid(query[c], params[c])
    /\ \E rs \in FetchResults(query[c], params[c]) :
          /\ rows' = [rows EXCEPT ![c] = rs]
          /\ response' = [response EXCEPT ![c] = ShapeResponse(rs)]
    /\ fetches' = [fetches EXCEPT ![c] = @ + 1]
    /\ pc' = [pc EXCEPT ![c] = "release"]
    /\ UNCHANGED <<input, free, conn, query, params, acquires>>

\* FetchFail answering without leaving the "async with" block.
FetchFailNoRelease(c) ==
    /\ pc[c] = "fetch"
    /\ \E detail \in {"Database error", "Internal Server Error"} :
          response' = [response EXCEPT ![c] = ErrorResponse(500, detail)]
    /\ fetches' = [fetches EXCEPT ![c] = @ + 1]
    /\ pc' = [pc EXCEPT ![c] = "done"]
    /\ UNCHANGED <<input, free, conn, query, params, rows, acquires>>

\* Lines 258, 272-277: connection.fetch raises; the handlers of the try block
\* turn a PostgresError and any other exception into a 500.
FetchFail(c) ==
    /\ pc[c] = "fetch"
    /\ \E detail \in {"Database error", "Internal Server Error"} :
          response' = [response EXCEPT ![c] = ErrorResponse(500, detail)]
    /\ fetches' = [fetches EXCEPT ![c] = @ + 1]
    /\ pc' = [pc EXCEPT ![c] = "release"]
    /\ UNCHANGED <<input, free, conn, query, params, rows, acquires>>

\* Line 88: leaving the "async with" block, by return or by exception, gives
\* the connection back; the response goes out afterwards.
Release(c) ==
    /\ pc[c] = "release"
    /\ free' = free \cup {conn[c]}
    /\ conn' = [conn EXCEPT ![c] = 0]
    /\ pc' = [pc EXCEPT ![c] = "done"]
    /\ UNCHANGED <<input, query, params, rows, response, acquires, fetches>>

Next ==
    \E c \in Clients :
        \/ Validate(c)
        \/ AcquireAndBuild(c)
        \/ FetchAndShape(c)
        \/ FetchFail(c)
        \/ Release(c)

Spec == Init /\ [][Next]_vars

\* ------------------------------------------------------------ claims
\* The filters as the claims speak of them.
Missing(v) == v = None \/ v = PyStr(<<>>) \/ v = PyArr(<<>>)

BothTextsMissing(req) == Missing(req.head_text) /\ Missing(req.dpdt_text)

FilterOrder ==
    <<"head_text", "dpdt_text", "head_pos", "dpdt_pos", "dep_type", "freq_inf",
      "freq_sup", "book_names", "book_categories", "book_periods", "book_styles",
      "examples_limit", "examples_offset", "results_limit", "results_offset">>

BookFilters == {"book_names", "book_categories", "book_periods", "book_styles"}

Supplied(req, f) == ~Missing(req[f])

SuppliedOrder(req) == SelectSeq(FilterOrder, LAMBDA f : Supplied(req, f))

\* The handler of client c has built its query.
Built(c) == c \in DOMAIN input /\ pc[c] \in {"fetch", "release", "done"} /\ acquires[c] > 0

\* The handler of client c has a success payload.
Succeeded(c) == c \in DOMAIN input /\ response[c].status = 200

\* The filter a token of the query text is about.
FilterOfToken(q, i) ==
    LET inExamples == i < IndexOf(q, ") AS limited_examples)")
    IN CASE q[i].s = "head_text LIKE $" -> "head_text"
         [] q[i].s = "dependent_text LIKE $" -> "dpdt_text"
         [] q[i].s = "head_pos = ANY($::text[])" -> "head_pos"
         [] q[i].s = "dependent_pos = ANY($::text[])" -> "dpdt_pos"
         [] q[i].s = "dependency_type = ANY($::text[])" -> "dep_type"
         [] q[i].s = "mv_token_collocations.frequency >= $" -> "freq_inf"
         [] q[i].s = "mv_token_collocations.frequency <= $" -> "freq_sup"
         [] q[i].s = "name = ANY($::text[])" -> "book_names"
         [] q[i].s = "category = ANY($::text[])" -> "book_categories"
         [] q[i].s = "period = ANY($::text[])" -> "book_periods"
         [] q[i].s = "style = ANY($::text[])" -> "book_styles"
         [] q[i].s = "LIMIT $" -> IF inExamples THEN "examples_limit" ELSE "results_limit"
         [] q[i].s = "OFFSET $" -> IF inExamples THEN "examples_offset" ELSE "results_offset"
         [] OTHER -> "none"

\* The tokens of q that reference placeholder k.
RefsTo(q, k) == { i \in 1..Len(q) : q[i].n = k }

Placeholders(q) == { q[i].n : i \in 1..Len(q) } \ {0}

\* C1: a request whose head_text and dpdt_text are both missing is answered
\* 400 and never acquires a connection, builds a query or reaches the store.
C1_RejectBeforeStore ==
    \A c \in DOMAIN input :
        BothTextsMissing(input[c]) =>
            /\ pc[c] \in {"idle", "done"}
            /\ pc[c] = "done" => response[c].status = 400
            /\ acquires[c] = 0 /\ fetches[c] = 0 /\ conn[c] = 0
            /\ query[c] = <<>>

C1_Witness ==
    \E c \in DOMAIN input :
        /\ input[c].head_text = PyStr(<<>>) /\ input[c].dpdt_text = None
        /\ pc[c] = "done" /\ response[c].status = 400 /\ free = Conns

\* C2 as stated: the placeholders of the text are 1..N, N the number of bound
\* parameters, and each index is referenced exactly once in the text.
C2_EveryIndexExactlyOnce ==
    \A c \in Clients :
        Built(c) =>
            /\ Placeholders(query[c]) = 1..Len(params[c])
            /\ \A k \in 1..Len(params[c]) : Cardinality(RefsTo(query[c], k)) = 1

\* C2 as amended: the placeholders of the text are exactly 1..N, N the number
\* of bound parameters; the index of a book filter is referenced exactly twice
\* (once in the examples subquery, once in the example-count subquery) and
\* every other index exactly once.
C2_IndicesOnceBookIndicesTwice ==
    \A c \in Clients :
        Built(c) =>
            /\ Placeholders(query[c]) = 1..Len(params[c])
            /\ \A k \in 1..Len(params[c]) :
                  LET refs == RefsTo(query[c], k)
                      book == \E i \in refs : FilterOfToken(query[c], i) \in BookFilters
                  IN IF book
                     THEN /\ Cardinality(refs) = 2
                          /\ \E i, j \in refs :
                                /\ i < IndexOf(query[c], ") AS limited_examples)")
                                /\ j > IndexOf(query[c], "(SELECT COUNT(*)")
                                /\ query[c][i] = query[c][j]
                     ELSE Cardinality(refs) = 1

C2_Witness ==
    \E c \in Clients :
        /\ Built(c)
        /\ Supplied(input[c], "book_names") /\ Supplied(input[c], "book_styles")
        /\ Supplied(input[c], "freq_sup") /\ ~Supplied(input[c], "book_periods")
        /\ Len(params[c]) = 9

\* C3: position k of the argument list holds the value of the k-th supplied
\* filter in the order head_text, dpdt_text, head_pos, dpdt_pos, dep_type,
\* freq_inf, freq_sup, book_names, book_categories, book_periods, book_styles,
\* examples_limit, examples_offset, results_limit, results_offset (a text
\* filter as its pattern %text%), and every token that references $k is the
\* predicate or window of that same filter.
C3_ParamsMirrorPlaceholders ==
    \A c \in Clients :
        Built(c) =>
            LET order == SuppliedOrder(input[c])
                bound(f) == IF f \in {"head_text", "dpdt_text"}
                            THEN PyStr(<<"%">> \o input[c][f].s \o <<"%">>)
                            ELSE input[c][f]
            IN /\ Len(params[c]) = Len(order)
               /\ \A k \in 1..Len(order) :
                     /\ params[c][k] = bound(order[k])
                     /\ RefsTo(query[c], k) # {}
                     /\ \A i \in RefsTo(query[c], k) :
                           FilterOfToken(query[c], i) = order[k]

C3_Witness ==
    \E c \in Clients :
        /\ Built(c)
        /\ Supplied(input[c], "dpdt_text") /\ ~Supplied(input[c], "head_text")
        /\ Supplied(input[c], "freq_sup") /\ Supplied(input[c], "book_names")
        /\ input[c].examples_limit # input[c].results_limit
        /\ input[c].examples_offset # input[c].results_offset
        /\ input[c].examples_limit # input[c].examples_offset
        /\ params[c][1] = PyStr(<<"%", "f", "%">>)

\* C4 as stated: when results_offset is at least the number of collocations
\* that match the filters, the response has no results and its
\* total_collocations_count is that number.
C4_TrueTotalBeyondLastPage ==
    \A c \in Clients :
        (Succeeded(c)
         /\ input[c].results_offset.n >= Cardinality(Matching(query[c], params[c])))
        => /\ response[c].results = <<>>
           /\ response[c].total_collocations_count
                 = Cardinality(Matching(query[c], params[c]))

\* The request req with every supplied value changed.
OtherValue(v) ==
    CASE v.ty = "str" /\ v.s # <<>> -> PyStr(v.s \o <<"x">>)
      [] v.ty = "arr" /\ v.s # <<>> -> PyArr(<<"zz">> \o v.s)
      [] v.ty = "int" -> PyInt(v.n + 1)
      [] OTHER -> v

OtherValues(req) == [f \in DOMAIN req |-> OtherValue(req[f])]

SamePresence(r1, r2) ==
    \A k \in 1..Len(FilterOrder) : Supplied(r1, FilterOrder[k]) = Supplied(r2, FilterOrder[k])

\* C5: two requests with the same filters supplied and different values get the
\* same query text; the values only show in the argument list.
C5_TextIndependentOfValues ==
    /\ \A c, d \in Clients :
          (Built(c) /\ Built(d) /\ SamePresence(input[c], input[d]))
          => query[c] = query[d]
    /\ \A c \in Clients :
          (Built(c) /\ pc[c] = "fetch") =>
             LET b == BuildQuery(OtherValues(input[c]))
             IN /\ b.query = query[c]
                /\ Len(b.params) = Len(params[c])
                /\ \A k \in 1..Len(params[c]) : b.params[k] # params[c][k]

C5_Witness ==
    \E c, d \in Clients :
        /\ Built(c) /\ Built(d) /\ input[c] # input[d]
        /\ SamePresence(input[c], input[d])
        /\ params[c] # params[d] /\ query[c] = query[d]

C7_CountStrippedRowsKept ==
    \A c \in Clients :
        Succeeded(c) =>
            /\ Len(response[c].results) = Len(rows[c])
            /\ \A i \in 1..Len(rows[c]) :
                  LET out == response[c].results[i]
                  IN /\ "total_collocations_count" \notin DOMAIN out
                     /\ DOMAIN out = DOMAIN rows[c][i] \ {"total_collocations_count"}
                     /\ \A f \in DOMAIN out : out[f] = rows[c][i][f]

C7_Witness ==
    \E c \in Clients :
        /\ Succeeded(c) /\ Len(response[c].results) >= 2
        /\ "total_collocations_count" \in DOMAIN rows[c][2]
        /\ response[c].results[1].head_text # response[c].results[2].head_text

\* Number of elements of an examples slice, null counting as none.
SliceSize(examples) == IF examples.null THEN 0 ELSE Len(examples.items)

\* C8: in every returned record example_count is at least the number of
\* elements of the record's examples slice.
C8_CountCoversSlice ==
    \A c \in Clients :
        Succeeded(c) =>
            \A i \in 1..Len(response[c].results) :
                response[c].results[i].example_count
                    >= SliceSize(response[c].results[i].examples)

C8_Witness ==
    \E c \in Clients :
        /\ Succeeded(c) /\ Supplied(input[c], "book_names")
        /\ \E i, j \in 1..Len(response[c].results) :
              /\ response[c].results[i].example_count = 2
              /\ SliceSize(response[c].results[i].examples) = 1
              /\ response[c].results[j].example_count = 1
              /\ response[c].results[j].examples.null

\* A result set without its examples slices.
WithoutExamples(rs) == [i \in 1..Len(rs) |-> Pop(rs[i], "examples")]

\* C9: whatever its examples_limit and examples_offset, a request selects the
\* collocations, and gets the example_count of each, the total_collocations_count
\* and the records less their examples slices, that it gets with the examples
\* window <<MaxLimit, 0>>; every examples window occurs among the requests, so
\* any two of them agree on all but the slices.
C9_ExamplePaginationFrame ==
    \A c \in Clients :
        (Succeeded(c) /\ pc[c] = "release") =>
            LET r == [input[c] EXCEPT !.examples_limit = PyInt(MaxLimit),
                                      !.examples_offset = PyInt(0)]
                b == BuildQuery(r)
                M == Matching(query[c], params[c])
            IN /\ Matching(b.query, b.params) = M
               /\ \A i \in M :
                     ExampleCountColumn(Store[i].examples, b.query, b.params)
                        = ExampleCountColumn(Store[i].examples, query[c], params[c])
               /\ \E rs \in FetchResults(b.query, b.params) :
                     /\ ShapeResponse(rs).total_collocations_count
                           = response[c].total_collocations_count
                     /\ WithoutExamples(ShapeResponse(rs).results)
                           = WithoutExamples(response[c].results)

C9_Witness ==
    \E c \in Clients :
        /\ Succeeded(c) /\ pc[c] = "release"
        /\ input[c].examples_limit = PyInt(1) /\ input[c].examples_offset = PyInt(1)
        /\ Len(response[c].results) = 2
        /\ LET b == BuildQuery([input[c] EXCEPT !.examples_limit = PyInt(MaxLimit),
                                                !.examples_offset = PyInt(0)])
           IN \A rs \in FetchResults(b.query, b.params) :
                 ShapeResponse(rs).results # response[c].results

\* The filters of the WHERE clause, in the order of their predicates.
WhereFilters ==
    <<"head_text", "dpdt_text", "head_pos", "dpdt_pos", "dep_type", "freq_inf", "freq_sup">>

\* The predicate the WHERE clause has for a filter.
PredicateOf(f) ==
    CASE f = "head_text" -> "head_text LIKE $"
      [] f = "dpdt_text" -> "dependent_text LIKE $"
      [] f = "head_pos" -> "head_pos = ANY($::text[])"
      [] f = "dpdt_pos" -> "dependent_pos = ANY($::text[])"
      [] f = "dep_type" -> "dependency_type = ANY($::text[])"
      [] f = "freq_inf" -> "mv_token_collocations.frequency >= $"
      [] f = "freq_sup" -> "mv_token_collocations.frequency <= $"

\* C10: the WHERE clause is predicates joined by AND, one for each supplied
\* filter among head_text, dpdt_text, head_pos, dpdt_pos, dep_type, then the
\* minimum-frequency predicate, then the maximum-frequency predicate iff
\* freq_sup is supplied; no AND stands first or last.
C10_WhereIsConjunctionOfSupplied ==
    \A c \in Clients :
        Built(c) =>
            LET w == Section(query[c], "FROM mv_token_collocations WHERE", "ORDER BY")
                preds == SelectSeq(w, LAMBDA tok : tok # K("AND"))
                order == SelectSeq(WhereFilters, LAMBDA f : Supplied(input[c], f))
            IN /\ Len(w) = 2 * Len(preds) - 1
               /\ \A i \in 1..Len(w) : (w[i] = K("AND")) <=> (i % 2 = 0)
               /\ Len(preds) = Len(order)
               /\ \A k \in 1..Len(preds) : preds[k].s = PredicateOf(order[k])

C10_Witness ==
    \E c \in Clients :
        /\ Built(c)
        /\ input[c].head_text = PyStr(<<>>) /\ input[c].head_pos = PyArr(<<>>)
        /\ input[c].dep_type = None /\ Supplied(input[c], "dpdt_pos")
        /\ Supplied(input[c], "freq_sup")
        /\ Len(Section(query[c], "FROM mv_token_collocations WHERE", "ORDER BY")) = 7

====
